---------------------------- MODULE Spec2Model ----------------------------
(***************************************************************************)
(* Model of the bidding-analysis scripts.                                  *)
(*                                                                         *)
(*  - Spec     : monte_carlo_simulation.py (and its two Korean variants,   *)
(*               whose simulation section is identical): the reserve-price *)
(*               Monte Carlo simulator.  Two runs of the script are        *)
(*               composed side by side so that run-to-run properties       *)
(*               (determinism) are statable.                               *)
(*  - SpecDist : analyze_first_place_distribution.py: winner filter,       *)
(*               0.1% / 0.05% histograms, top listings, decimal-digit      *)
(*               tables and the safe-zone listing.                         *)
(*  - SpecDigits : the same script on rates near 80, where the float64     *)
(*               product of the digit extraction loses a digit.            *)
(*  - SpecSummary : one run of the simulation script from its first line   *)
(*               through the percentile report, the load of the historical *)
(*               winners, the summary and its JSON / CSV files.            *)
(*  - SpecPair : two such runs side by side, each with a historical sheet  *)
(*               of its own, so that the runs can be compared.             *)
(*                                                                         *)
(* Numbers.  float64 values are modelled as exact rationals <<n, d>>       *)
(* (d > 0, lowest terms); NaN is <<0, 0>>.  Where a float64 result is      *)
(* truncated (the bid amount, the decimal digits) the operations are       *)
(* computed bit-exactly on binary64 values; elsewhere rounding error is not*)
(* modelled.  Money is in units of 1,000,000 won, so BASE_AMOUNT = 39      *)
(* stands for 39_000_000.  Bid rates read from the sheet are integers in   *)
(* units of 0.001 percentage point (87.745% = 87745).                      *)
(***************************************************************************)
EXTENDS Integers, Sequences, FiniteSets, TLC

(***************************************************************************)
(* Exact rational arithmetic (the model of float64).                       *)
(***************************************************************************)
RECURSIVE GCD(_, _)
GCD(a, b) == IF b = 0 THEN a ELSE GCD(b, a % b)

Abs(x) == IF x < 0 THEN -x ELSE x

NaN == <<0, 0>>

IsNaN(x) == x[2] = 0

Rat(n, d) ==
    IF d = 0 THEN NaN
    ELSE LET g == GCD(Abs(n), Abs(d))
             s == IF d < 0 THEN -1 ELSE 1
         IN  <<s * (n \div g), s * (d \div g)>>

FromInt(k) == <<k, 1>>

RatAdd(x, y) ==
    IF IsNaN(x) \/ IsNaN(y) THEN NaN
    ELSE LET g == GCD(x[2], y[2])
         IN  Rat(x[1] * (y[2] \div g) + y[1] * (x[2] \div g), (x[2] \div g) * y[2])

RatNeg(x) == IF IsNaN(x) THEN NaN ELSE <<-x[1], x[2]>>

RatSub(x, y) == RatAdd(x, RatNeg(y))

RatMul(x, y) ==
    IF IsNaN(x) \/ IsNaN(y) THEN NaN
    ELSE LET a == Rat(x[1], y[2])
             b == Rat(y[1], x[2])
         IN  Rat(a[1] * b[1], a[2] * b[2])

RatDiv(x, y) ==
    IF IsNaN(x) \/ IsNaN(y) \/ y[1] = 0 THEN NaN
    ELSE RatMul(x, Rat(y[2], y[1]))

RatLess(x, y) == ~IsNaN(x) /\ ~IsNaN(y) /\ RatSub(x, y)[1] < 0

RatLeq(x, y) == ~IsNaN(x) /\ ~IsNaN(y) /\ RatSub(x, y)[1] <= 0

RECURSIVE SumSeq(_)
SumSeq(s) == IF s = <<>> THEN FromInt(0) ELSE RatAdd(s[1], SumSeq(Tail(s)))

\* np.mean / ndarray.mean: the mean of an empty array is NaN.
Mean(s) == RatDiv(SumSeq(s), FromInt(Len(s)))

\* sorted(s): insertion sort of rationals, ascending.
RECURSIVE InsertSorted(_, _)
InsertSorted(x, s) ==
    IF s = <<>> THEN <<x>>
    ELSE IF RatLeq(x, s[1]) THEN <<x>> \o s
    ELSE <<s[1]>> \o InsertSorted(x, Tail(s))

RECURSIVE Sorted(_)
Sorted(s) == IF s = <<>> THEN <<>> ELSE InsertSorted(s[1], Sorted(Tail(s)))

\* ndarray.min / ndarray.max of a non-empty array.
RatMin(s) == Sorted(s)[1]

RatMax(s) == Sorted(s)[Len(s)]

\* np.median / Series.median: the middle value, or the mean of the two
\* middle values; NaN for no values.
Median(s) ==
    LET a == Sorted(s)
        n == Len(s)
    IN  IF n = 0 THEN NaN
        ELSE IF n % 2 = 1 THEN a[(n + 1) \div 2]
        ELSE RatDiv(RatAdd(a[n \div 2], a[n \div 2 + 1]), FromInt(2))

\* Mutant of Percentile: the array is not sorted first.
PercentileUnsorted(s, q) ==
    LET n   == Len(s)
        lo  == ((n - 1) * q) \div 100
        f   == Rat(((n - 1) * q) % 100, 100)
    IN  IF n = 0 THEN NaN
        ELSE IF lo + 1 >= n THEN s[n]
        ELSE RatAdd(s[lo + 1], RatMul(f, RatSub(s[lo + 2], s[lo + 1])))

\* np.percentile(s, q), linear interpolation: position (n-1)*q/100 in the
\* sorted array, interpolated between its two neighbours.
Percentile(s, q) ==
    LET a   == Sorted(s)
        n   == Len(s)
        lo  == ((n - 1) * q) \div 100
        f   == Rat(((n - 1) * q) % 100, 100)
    IN  IF n = 0 THEN NaN
        ELSE IF lo + 1 >= n THEN a[n]
        ELSE RatAdd(a[lo + 1], RatMul(f, RatSub(a[lo + 2], a[lo + 1])))

\* round(x, 3) and the "%.3f" format: the nearest multiple of 0.001, ties
\* to the even one; NaN stays NaN.  The digits are produced by long division
\* so that no intermediate exceeds the remainder times ten.
Round3(x) ==
    IF IsNaN(x) THEN NaN
    ELSE LET n  == Abs(x[1])
             d  == x[2]
             r1 == ((n % d) * 10) % d
             r2 == (r1 * 10) % d
             r3 == (r2 * 10) % d
             t  == (n \div d) * 1000 + (((n % d) * 10) \div d) * 100
                   + ((r1 * 10) \div d) * 10 + ((r2 * 10) \div d)
             up == 2 * r3 > d \/ (2 * r3 = d /\ t % 2 = 1)
             s  == IF x[1] < 0 THEN -1 ELSE 1
         IN  Rat(s * (IF up THEN t + 1 ELSE t), 1000)

\* ndarray.std (ddof = 0) and Series.std (ddof = 1).  The magnitude of a
\* standard deviation is a square root and is not represented: the value
\* is "nan" when fewer than ddof + 1 values remain, "zero" when all
\* values are equal, "positive" otherwise.
Std(s, ddof) ==
    IF Len(s) - ddof <= 0 THEN "nan"
    ELSE IF \A j, k \in 1..Len(s) : s[j] = s[k] THEN "zero"
    ELSE "positive"

(***************************************************************************)
(* binary64.  Where the result of a float64 operation is truncated or its  *)
(* digits are extracted, rounding error decides the outcome, so these      *)
(* operations are computed bit-exactly.  A non-negative double is          *)
(* [m, e] with value m * 2^e; m is an unbounded natural kept as a          *)
(* little-endian sequence of limbs in base 2^15 (<<>> is 0), at most 53    *)
(* bits long.  Every operation rounds to nearest, ties to even.            *)
(***************************************************************************)
LIMB == 32768

MANTISSA_BITS == 53

RECURSIVE BigNorm(_)
BigNorm(b) ==
    IF b = <<>> THEN <<>>
    ELSE IF b[Len(b)] = 0 THEN BigNorm(SubSeq(b, 1, Len(b) - 1))
    ELSE b

RECURSIVE BigFromInt(_)
BigFromInt(n) == IF n = 0 THEN <<>> ELSE <<n % LIMB>> \o BigFromInt(n \div LIMB)

RECURSIVE BigToInt(_)
BigToInt(b) == IF b = <<>> THEN 0 ELSE b[1] + LIMB * BigToInt(Tail(b))

RECURSIVE BigMulSmallC(_, _, _)
BigMulSmallC(b, c, carry) ==
    IF b = <<>> THEN BigFromInt(carry)
    ELSE LET t == b[1] * c + carry
         IN  <<t % LIMB>> \o BigMulSmallC(Tail(b), c, t \div LIMB)

\* b * c for 0 <= c < LIMB
BigMulSmall(b, c) == BigNorm(BigMulSmallC(b, c, 0))

RECURSIVE BigAddC(_, _, _)
BigAddC(a, b, carry) ==
    IF a = <<>> /\ b = <<>> THEN BigFromInt(carry)
    ELSE LET x == IF a = <<>> THEN 0 ELSE a[1]
             y == IF b = <<>> THEN 0 ELSE b[1]
             t == x + y + carry
         IN  <<t % LIMB>> \o BigAddC(IF a = <<>> THEN a ELSE Tail(a),
                                     IF b = <<>> THEN b ELSE Tail(b), t \div LIMB)

BigAdd(a, b) == BigNorm(BigAddC(a, b, 0))

\* b * LIMB^k
BigShiftLimbs(b, k) == IF b = <<>> THEN <<>> ELSE [j \in 1..k |-> 0] \o b

\* b * c for 0 <= c < LIMB * LIMB
BigMulInt(b, c) ==
    BigAdd(BigShiftLimbs(BigMulSmall(b, c \div LIMB), 1), BigMulSmall(b, c % LIMB))

\* Quotient and remainder of b by 0 < c < LIMB, from the top limb down.
RECURSIVE BigDivSmall(_, _)
BigDivSmall(b, c) ==
    IF b = <<>> THEN [q |-> <<>>, r |-> 0]
    ELSE LET hi == BigDivSmall(Tail(b), c)
             t  == hi.r * LIMB + b[1]
         IN  [q |-> BigNorm(<<t \div c>> \o hi.q), r |-> t % c]

RECURSIVE Pow2(_)
Pow2(k) == IF k = 0 THEN 1 ELSE 2 * Pow2(k - 1)

RECURSIVE BitLen(_)
BitLen(n) == IF n = 0 THEN 0 ELSE 1 + BitLen(n \div 2)

BigBitLen(b) == IF b = <<>> THEN 0 ELSE 15 * (Len(b) - 1) + BitLen(b[Len(b)])

\* b * 2^s
BigShiftLeft(b, s) == BigShiftLimbs(BigMulSmall(b, Pow2(s % 15)), s \div 15)

\* floor(b / 2^s), and whether a non-zero bit was shifted out.
BigShiftRight(b, s) ==
    LET k    == IF s \div 15 > Len(b) THEN Len(b) ELSE s \div 15
        low  == SubSeq(b, 1, k)
        high == SubSeq(b, k + 1, Len(b))
        d    == BigDivSmall(high, Pow2(s % 15))
    IN  [q |-> d.q, sticky |-> d.r # 0 \/ \E j \in 1..Len(low) : low[j] # 0]

BigIsOdd(b) == b # <<>> /\ b[1] % 2 = 1

FZero == [m |-> <<>>, e |-> 0]

\* The double nearest to n * 2^e (sticky: the true value is slightly larger).
FRoundBig(n, sticky, e) ==
    LET len == BigBitLen(n)
    IN  IF len = 0 THEN FZero
        ELSE IF len <= MANTISSA_BITS
        THEN [m |-> BigShiftLeft(n, MANTISSA_BITS - len), e |-> e - (MANTISSA_BITS - len)]
        ELSE LET drop  == len - MANTISSA_BITS
                 g     == BigShiftRight(n, drop - 1)
                 q     == BigShiftRight(g.q, 1).q
                 round == BigIsOdd(g.q)
                 up    == round /\ (g.sticky \/ sticky \/ BigIsOdd(q))
                 m1    == IF up THEN BigAdd(q, <<1>>) ELSE q
             IN  IF BigBitLen(m1) > MANTISSA_BITS
                 THEN [m |-> BigShiftRight(m1, 1).q, e |-> e + drop + 1]
                 ELSE [m |-> m1, e |-> e + drop]

\* float(n / d) for a decimal literal or spreadsheet cell, 0 < d < LIMB.
FFromRatio(n, d) ==
    LET x == BigDivSmall(BigShiftLeft(BigFromInt(n), 75), d)
    IN  FRoundBig(x.q, x.r # 0, -75)

\* x * c for an integer 0 <= c < LIMB * LIMB
FMulInt(x, c) == FRoundBig(BigMulInt(x.m, c), FALSE, x.e)

\* x / c for an integer 0 < c < LIMB
FDivSmall(x, c) ==
    LET d == BigDivSmall(BigShiftLeft(x.m, 30), c)
    IN  FRoundBig(d.q, d.r # 0, x.e - 30)

\* x + y
FAdd(x, y) ==
    IF x.m = <<>> THEN y
    ELSE IF y.m = <<>> THEN x
    ELSE LET e == IF x.e < y.e THEN x.e ELSE y.e
         IN  FRoundBig(BigAdd(BigShiftLeft(x.m, x.e - e), BigShiftLeft(y.m, y.e - e)),
                       FALSE, e)

\* x / 2
FHalf(x) == IF x.m = <<>> THEN x ELSE [m |-> x.m, e |-> x.e - 1]

\* int(x) and ndarray.astype(int): truncation toward zero.
FTrunc(x) ==
    IF x.e >= 0 THEN BigToInt(BigShiftLeft(x.m, x.e))
    ELSE BigToInt(BigShiftRight(x.m, -x.e).q)

(***************************************************************************)
(* Program constants of the simulation scripts.                            *)
(***************************************************************************)
BASE_AMOUNT == 39

AGENCY_RATE == Rat(87745, 1000)

VARIANCE_RANGE == Rat(3, 100)

N_PRELIMINARY_PRICES == 15

N_SELECTED == 4

SEED == 42

(***************************************************************************)
(* Bounds of the model.                                                    *)
(***************************************************************************)
\* N_SIMULATIONS is 10_000 in the source; the model runs MaxTrials trials.
MaxTrials == 3

\* Besides the shipped 15, the preliminary-price count ranges over
\* 0..MaxPrelimSmall (counts below N_SELECTED make the draw impossible).
MaxPrelimSmall == 5

\* Increments of the generator family, 0..MaxIncrement.
MaxIncrement == 14

\* States of the pseudo-random generator are 0..RngModulus-1.
RngModulus == 32768

N_SIMULATIONS == MaxTrials

PrelimCounts == (0..MaxPrelimSmall) \cup {N_PRELIMINARY_PRICES}

\* The two runs of the script that are compared.
Runs == {1, 2}

\* Multipliers of the generator family.
GenMultipliers == {1, 9973, 20011}

\* What the global generator may hold before np.random.seed is called
\* (numpy seeds it from OS entropy at import).
EntropyStates == {7, 4099}

VARIABLES
    n_preliminary_prices, \* the preliminary-price count of both runs
    genA, genC,           \* the generator: state' = (genA*state + genC) % RngModulus
    pc,                   \* per run: position in the script
    rng,                  \* per run: state of numpy's global generator
    rngDraws,             \* per run: number of draws taken from the generator
    preliminary_prices,   \* per run
    i,                    \* per run: completed iterations of the trial loop
    selected_idx,         \* per run: positions drawn in the last trial
    selected,             \* per run: the prices at those positions
    reserve_prices,       \* per run
    min_winning_prices,   \* per run
    base_to_min_winning_rates, \* per run
    reserve_mean,         \* per run: reserve_prices.mean()
    err,                  \* per run: the uncaught exception, "" when none
    percentiles,          \* per run: the printed percentile table
    data_file_sim,        \* per run: the spreadsheet on disk, as the run finds it
    df_sim,               \* per run: the loaded sheet (df)
    df_first_sim,         \* per run: df_first, [none, rows]
    summary,              \* per run: the summary dictionary
    summary_file,         \* per run: monte_carlo_summary.json
    csv_file,             \* per run: monte_carlo_summary.csv
    \* analyze_first_place_distribution.py
    data_file,            \* the spreadsheet on disk: [exists, columns, rows]
    df,                   \* the loaded sheet: records [rank, rate]
    df_first,             \* the rows with rank 1
    rates,                \* their rates
    basic_stats,          \* the printed basic statistics
    edges_01, hist_01,    \* 0.1% buckets
    top_10,               \* printed lines <<start, end, count>>
    edges_005, hist_005,  \* 0.05% buckets
    top_15,               \* printed lines <<start, end, count>>
    first_decimal, second_decimal, third_decimal, \* decimal digits of the rates
    decimal_counts, decimal2_counts, decimal3_counts, \* digit -> frequency
    safe_zones,           \* printed lines <<start, end, count>>
    pcD,                  \* position in the script
    errD                  \* the uncaught exception, "" when none

pipeVars == <<percentiles, data_file_sim, df_sim, df_first_sim, summary,
              summary_file, csv_file>>

simVars == <<n_preliminary_prices, genA, genC, pc, rng, rngDraws,
             preliminary_prices, i, selected_idx, selected, reserve_prices,
             min_winning_prices, base_to_min_winning_rates, reserve_mean, err,
             pipeVars>>

distVars == <<data_file, df, df_first, rates, basic_stats, edges_01, hist_01,
              top_10, edges_005, hist_005, top_15, first_decimal, second_decimal,
              third_decimal, decimal_counts, decimal2_counts, decimal3_counts,
              safe_zones, pcD, errD>>

vars == <<simVars, distVars>>

(***************************************************************************)
(* 1. The preliminary prices.                                              *)
(***************************************************************************)
min_price == RatMul(FromInt(BASE_AMOUNT), RatSub(FromInt(1), VARIANCE_RANGE))

max_price == RatMul(FromInt(BASE_AMOUNT), RatAdd(FromInt(1), VARIANCE_RANGE))

\* Mutant of Linspace: the endpoint is left out (step = (stop-start)/num).
LinspaceNoEndpoint(start, stop, num) ==
    IF num = 0 THEN <<>>
    ELSE LET step == RatDiv(RatSub(stop, start), FromInt(num))
         IN  [k \in 1..num |-> RatAdd(start, RatMul(FromInt(k - 1), step))]

\* np.linspace(start, stop, num), endpoint included: start + k*step for
\* k = 0..num-1 with step = (stop-start)/(num-1), the last entry set to stop.
Linspace(start, stop, num) ==
    IF num = 0 THEN <<>>
    ELSE IF num = 1 THEN <<start>>
    ELSE LET step == RatDiv(RatSub(stop, start), FromInt(num - 1))
         IN  [k \in 1..num |->
                IF k = num THEN stop
                ELSE RatAdd(start, RatMul(FromInt(k - 1), step))]

MakePrices(r) ==
    /\ pc[r] = "prices"
    /\ preliminary_prices' = [preliminary_prices EXCEPT
            ![r] = Linspace(min_price, max_price, n_preliminary_prices)]
    /\ pc' = [pc EXCEPT ![r] = "seed"]
    /\ UNCHANGED <<n_preliminary_prices, genA, genC, rng, rngDraws, i,
                   selected_idx, selected, reserve_prices, min_winning_prices,
                   base_to_min_winning_rates, reserve_mean, err>>
    /\ UNCHANGED pipeVars
    /\ UNCHANGED distVars

(***************************************************************************)
(* 2. The generator.  MT19937 is modelled by a family of deterministic     *)
(* generators: the next state is a fixed function of the current one.      *)
(***************************************************************************)
RandomSeed(seed) == seed % RngModulus

NextRng(state) == (genA * state + genC) % RngModulus

RemoveAt(s, j) == [k \in 1..(Len(s) - 1) |-> IF k < j THEN s[k] ELSE s[k + 1]]

\* The first k entries of a permutation of rem, decoded from x.
RECURSIVE PermutationPrefix(_, _, _)
PermutationPrefix(rem, k, x) ==
    IF k = 0 \/ rem = <<>> THEN <<>>
    ELSE LET j == (x % Len(rem)) + 1
         IN  <<rem[j]>> \o PermutationPrefix(RemoveAt(rem, j), k - 1, x \div Len(rem))

\* k positions of 1..n drawn independently, decoded from x.
RECURSIVE RandintSeq(_, _, _)
RandintSeq(n, k, x) ==
    IF k = 0 THEN <<>>
    ELSE <<(x % n) + 1>> \o RandintSeq(n, k - 1, x \div n)

\* Mutant of Choice: a sample larger than the population is silently cut
\* down to the population size instead of raising.
ChoiceTruncating(a, size, replace, state) ==
    LET n  == Len(a)
        s2 == NextRng(state)
        m  == IF size > n THEN n ELSE size
    IN  [ok  |-> TRUE,
         idx |-> IF replace /\ n > 0 THEN RandintSeq(n, size, s2)
                 ELSE PermutationPrefix([k \in 1..n |-> k], m, s2),
         rng |-> s2]

\* np.random.choice(a, size, replace): one step of the generator; without
\* replacement the positions are the head of a permutation, and a sample
\* larger than the population raises ValueError.
Choice(a, size, replace, state) ==
    LET n  == Len(a)
        s2 == NextRng(state)
    IN  IF n = 0 \/ (~replace /\ size > n)
        THEN [ok |-> FALSE, idx |-> <<>>, rng |-> state]
        ELSE [ok  |-> TRUE,
              idx |-> IF replace THEN RandintSeq(n, size, s2)
                      ELSE PermutationPrefix([k \in 1..n |-> k], size, s2),
              rng |-> s2]

\* Mutant of SeedAndInit: np.random.seed is not called.
SeedAndInitUnseeded(r) ==
    /\ pc[r] = "seed"
    /\ rngDraws' = [rngDraws EXCEPT ![r] = 0]
    /\ reserve_prices' = [reserve_prices EXCEPT ![r] = <<>>]
    /\ min_winning_prices' = [min_winning_prices EXCEPT ![r] = <<>>]
    /\ base_to_min_winning_rates' = [base_to_min_winning_rates EXCEPT ![r] = <<>>]
    /\ pc' = [pc EXCEPT ![r] = "loop"]
    /\ UNCHANGED <<n_preliminary_prices, genA, genC, rng, preliminary_prices, i,
                   selected_idx, selected, reserve_mean, err>>
    /\ UNCHANGED pipeVars
    /\ UNCHANGED distVars

SeedAndInit(r) ==
    /\ pc[r] = "seed"
    /\ rng' = [rng EXCEPT ![r] = RandomSeed(SEED)]
    /\ rngDraws' = [rngDraws EXCEPT ![r] = 0]
    /\ reserve_prices' = [reserve_prices EXCEPT ![r] = <<>>]
    /\ min_winning_prices' = [min_winning_prices EXCEPT ![r] = <<>>]
    /\ base_to_min_winning_rates' = [base_to_min_winning_rates EXCEPT ![r] = <<>>]
    /\ pc' = [pc EXCEPT ![r] = "loop"]
    /\ UNCHANGED <<n_preliminary_prices, genA, genC, preliminary_prices, i,
                   selected_idx, selected, reserve_mean, err>>
    /\ UNCHANGED pipeVars
    /\ UNCHANGED distVars

(***************************************************************************)
(* 3. The trial loop.                                                      *)
(***************************************************************************)
\* Mutant of LoopContinues: one iteration too many.
LoopContinuesOffByOne(k) == k <= N_SIMULATIONS

\* for i in range(N_SIMULATIONS)
LoopContinues(k) == k < N_SIMULATIONS

\* Mutant of DrawSample: replace=True.
DrawSampleWithReplacement(prices, state) == Choice(prices, N_SELECTED, TRUE, state)

DrawSample(prices, state) == Choice(prices, N_SELECTED, FALSE, state)

\* Mutant of ReservePrice: the sum is not divided by the sample size.
ReservePriceSum(sel) == SumSeq(sel)

ReservePrice(sel) == Mean(sel)

\* Mutant of MinWinningPrice: the rate is used as a fraction, not a percentage.
MinWinningPriceNoPercent(reserve_price) == RatMul(reserve_price, AGENCY_RATE)

MinWinningPrice(reserve_price) ==
    RatMul(reserve_price, RatDiv(AGENCY_RATE, FromInt(100)))

BaseToMinWinningRate(min_winning_price) ==
    RatMul(RatDiv(min_winning_price, FromInt(BASE_AMOUNT)), FromInt(100))

Trial(r) ==
    /\ pc[r] = "loop"
    /\ LoopContinues(i[r])
    /\ LET d == DrawSample(preliminary_prices[r], rng[r])
       IN  IF ~d.ok
           THEN /\ pc' = [pc EXCEPT ![r] = "error"]
                /\ err' = [err EXCEPT ![r] = "ValueError"]
                /\ UNCHANGED <<rng, rngDraws, i, selected_idx, selected,
                               reserve_prices, min_winning_prices,
                               base_to_min_winning_rates>>
           ELSE LET sel == [k \in 1..Len(d.idx) |-> preliminary_prices[r][d.idx[k]]]
                    rp  == ReservePrice(sel)
                    mwp == MinWinningPrice(rp)
                    b2m == BaseToMinWinningRate(mwp)
                IN  /\ rng' = [rng EXCEPT ![r] = d.rng]
                    /\ rngDraws' = [rngDraws EXCEPT ![r] = @ + 1]
                    /\ selected_idx' = [selected_idx EXCEPT ![r] = d.idx]
                    /\ selected' = [selected EXCEPT ![r] = sel]
                    /\ reserve_prices' = [reserve_prices EXCEPT ![r] = Append(@, rp)]
                    /\ min_winning_prices' =
                           [min_winning_prices EXCEPT ![r] = Append(@, mwp)]
                    /\ base_to_min_winning_rates' =
                           [base_to_min_winning_rates EXCEPT ![r] = Append(@, b2m)]
                    /\ i' = [i EXCEPT ![r] = @ + 1]
                    /\ UNCHANGED <<pc, err>>
    /\ UNCHANGED <<n_preliminary_prices, genA, genC, preliminary_prices, reserve_mean>>
    /\ UNCHANGED pipeVars
    /\ UNCHANGED distVars

LoopExit(r) ==
    /\ pc[r] = "loop"
    /\ ~LoopContinues(i[r])
    /\ pc' = [pc EXCEPT ![r] = "stats"]
    /\ UNCHANGED <<n_preliminary_prices, genA, genC, rng, rngDraws,
                   preliminary_prices, i, selected_idx, selected, reserve_prices,
                   min_winning_prices, base_to_min_winning_rates, reserve_mean, err>>
    /\ UNCHANGED pipeVars
    /\ UNCHANGED distVars

\* 3. statistics of the three arrays (the reserve-price mean is kept).
Stats(r) ==
    /\ pc[r] = "stats"
    /\ reserve_mean' = [reserve_mean EXCEPT ![r] = Mean(reserve_prices[r])]
    /\ pc' = [pc EXCEPT ![r] = "done"]
    /\ UNCHANGED <<n_preliminary_prices, genA, genC, rng, rngDraws,
                   preliminary_prices, i, selected_idx, selected, reserve_prices,
                   min_winning_prices, base_to_min_winning_rates, err>>
    /\ UNCHANGED pipeVars
    /\ UNCHANGED distVars

(***************************************************************************)
(* analyze_first_place_distribution.py.  Rates are integers in units of    *)
(* 0.001 percentage point; bucket arithmetic is exact.                     *)
(***************************************************************************)
\* Bucket widths 0.1 and 0.05, and the floor of the safe-zone listing 87.0.
W_01 == 100

W_005 == 50

SAFE_FLOOR == 87000

TOP_10 == 10

TOP_15 == 15

\* The sheet holds at most MaxRecords rows.
MaxRecords == 3

\* 1 is the winner, -1 a bid below the floor, 2 a runner-up.
RankValues == {-1, 1, 2}

\* Rates on a bucket edge (86.9), next to one (86.88, 86.93), above the
\* safe floor (87.03) and far away (87.61).  On these values float64
\* evaluation of the edges gives the same buckets as exact arithmetic.
RateValues == {86880, 86900, 86930, 87030, 87610}

Records == [rank : RankValues, rate : RateValues]

RECURSIVE SeqsUpTo(_, _)
SeqsUpTo(S, n) ==
    IF n = 0 THEN {<<>>}
    ELSE LET shorter == SeqsUpTo(S, n - 1)
         IN  shorter \cup {Append(q, x) : q \in shorter, x \in S}

\* Mutant of IsFirst: every placed bidder passes, not only the winner.
IsPlaced(rec) == rec.rank >= 1

\* df['순위'] == 1
IsFirst(rec) == rec.rank = 1

MinOfSeq(s) == CHOOSE x \in {s[k] : k \in 1..Len(s)} : \A k \in 1..Len(s) : x <= s[k]

MaxOfSeq(s) == CHOOSE x \in {s[k] : k \in 1..Len(s)} : \A k \in 1..Len(s) : x >= s[k]

\* np.arange(start, stop, step): ceil((stop-start)/step) values from start.
ARange(start, stop, step) ==
    LET n == IF stop <= start THEN 0 ELSE (stop - start + step - 1) \div step
    IN  [k \in 1..n |-> start + (k - 1) * step]

\* bins = np.arange(rates.min() // w * w, rates.max() + w, w)
Bins(values, w) == ARange((MinOfSeq(values) \div w) * w, MaxOfSeq(values) + w, w)

\* np.histogram(values, bins=edges): bucket b counts edges[b] <= v < edges[b+1],
\* except the last bucket, which also counts v = edges[last]; values outside
\* [edges[1], edges[last]] are dropped; fewer than two edges give no bucket.
Histogram(values, edges) ==
    LET nb == IF Len(edges) < 2 THEN 0 ELSE Len(edges) - 1
    IN  [b \in 1..nb |->
            Cardinality({k \in 1..Len(values) :
                /\ edges[b] <= values[k]
                /\ \/ values[k] < edges[b + 1]
                   \/ b = nb /\ values[k] = edges[b + 1]})]

\* np.argsort(h): positions ordered by ascending count, ties by position
\* (the order numpy's sort produces on arrays this short).
RECURSIVE ArgSortOf(_, _)
ArgSortOf(h, rem) ==
    IF rem = {} THEN <<>>
    ELSE LET m == CHOOSE j \in rem :
                     \A k \in rem : h[j] < h[k] \/ (h[j] = h[k] /\ j <= k)
         IN  <<m>> \o ArgSortOf(h, rem \ {m})

ArgSort(h) == ArgSortOf(h, 1..Len(h))

\* s[:n] and s[-n:][::-1]
FirstN(s, n) == SubSeq(s, 1, IF Len(s) < n THEN Len(s) ELSE n)

LastNReversed(s, n) ==
    LET m == IF Len(s) < n THEN Len(s) ELSE n
    IN  [k \in 1..m |-> s[Len(s) - k + 1]]

Line(edges, h, idx) == <<edges[idx], edges[idx + 1], h[idx]>>

\* The most crowded buckets: the last n of argsort, reversed, empty ones skipped.
TopBuckets(edges, h, n) ==
    LET idxs == LastNReversed(ArgSort(h), n)
        kept == SelectSeq(idxs, LAMBDA idx : h[idx] > 0)
    IN  [k \in 1..Len(kept) |-> Line(edges, h, kept[k])]

\* The safe-zone listing: the first n of argsort with count >= 0 and
\* start >= 87.0.
SafeBuckets(edges, h, n) ==
    LET idxs == FirstN(ArgSort(h), n)
        kept == SelectSeq(idxs, LAMBDA idx : h[idx] >= 0 /\ edges[idx] >= SAFE_FLOOR)
    IN  [k \in 1..Len(kept) |-> Line(edges, h, kept[k])]

\* The columns the scripts read: "rank" is '순위', "rate" is '기초대비투찰률'.
AllColumns == {"rank", "rate"}

AbsentFile == [exists |-> FALSE, columns |-> {}, rows |-> <<>>]

\* What may be on disk: no file, a sheet lacking a column, or a full sheet
\* of at most n rows.
FileStates(recs, n) ==
    {AbsentFile}
    \cup {[exists |-> TRUE, columns |-> c, rows |-> <<>>] : c \in (SUBSET AllColumns) \ {AllColumns}}
    \cup {[exists |-> TRUE, columns |-> AllColumns, rows |-> s] : s \in SeqsUpTo(recs, n)}

\* Mutant of FilterFirst: the first matching row is lost.
FilterFirstSkipsOne(d) ==
    IF SelectSeq(d, IsFirst) = <<>> THEN <<>> ELSE Tail(SelectSeq(d, IsFirst))

\* df[df['순위'] == 1].copy(): a new frame holding the rows with rank 1.
FilterFirst(d) == SelectSeq(d, IsFirst)

\* df_first['기초대비투찰률'].values
RatesOf(d) == [k \in 1..Len(d) |-> d[k].rate]

\* The rates as numbers (0.001 percentage point units to percent).
AsRats(rs) == [k \in 1..Len(rs) |-> Rat(rs[k], 1000)]

NoStats == [mean |-> NaN, median |-> NaN, std |-> "nan", min |-> NaN, max |-> NaN]

NoCounts == [d \in 0..9 |-> 0]

\* pd.read_excel raises FileNotFoundError for a missing file; indexing a
\* missing column raises KeyError.  Neither is caught.
LoadAndFilter ==
    /\ pcD = "load"
    /\ IF ~data_file.exists
       THEN /\ pcD' = "error"
            /\ errD' = "FileNotFoundError"
            /\ UNCHANGED <<df, df_first, rates>>
       ELSE IF "rank" \notin data_file.columns
       THEN /\ df' = data_file.rows
            /\ pcD' = "error"
            /\ errD' = "KeyError"
            /\ UNCHANGED <<df_first, rates>>
       ELSE IF "rate" \notin data_file.columns
       THEN /\ df' = data_file.rows
            /\ df_first' = FilterFirst(data_file.rows)
            /\ pcD' = "error"
            /\ errD' = "KeyError"
            /\ UNCHANGED rates
       ELSE /\ df' = data_file.rows
            /\ df_first' = FilterFirst(data_file.rows)
            /\ rates' = RatesOf(FilterFirst(data_file.rows))
            /\ pcD' = "stats"
            /\ UNCHANGED errD
    /\ UNCHANGED <<data_file, basic_stats, edges_01, hist_01, top_10, edges_005,
                   hist_005, top_15, first_decimal, second_decimal, third_decimal,
                   decimal_counts, decimal2_counts, decimal3_counts, safe_zones>>
    /\ UNCHANGED simVars

\* The printed basic statistics ("%.3f").  Mean, median and std of an empty
\* array are NaN; rates.min() of an empty array raises ValueError.
BasicStats ==
    /\ pcD = "stats"
    /\ IF rates = <<>>
       THEN /\ basic_stats' = [NoStats EXCEPT !.std = Std(AsRats(rates), 0)]
            /\ pcD' = "error"
            /\ errD' = "ValueError"
       ELSE /\ basic_stats' = [mean   |-> Round3(Mean(AsRats(rates))),
                               median |-> Round3(Median(AsRats(rates))),
                               std    |-> Std(AsRats(rates), 0),
                               min    |-> Round3(RatMin(AsRats(rates))),
                               max    |-> Round3(RatMax(AsRats(rates)))]
            /\ pcD' = "hist01"
            /\ errD' = errD
    /\ UNCHANGED <<data_file, df, df_first, rates, edges_01, hist_01, top_10,
                   edges_005, hist_005, top_15, first_decimal, second_decimal,
                   third_decimal, decimal_counts, decimal2_counts, decimal3_counts,
                   safe_zones>>
    /\ UNCHANGED simVars

Hist01 ==
    /\ pcD = "hist01"
    /\ edges_01' = Bins(rates, W_01)
    /\ hist_01' = Histogram(rates, Bins(rates, W_01))
    /\ pcD' = "top10"
    /\ UNCHANGED <<data_file, df, df_first, rates, basic_stats, top_10, edges_005,
                   hist_005, top_15, first_decimal, second_decimal, third_decimal,
                   decimal_counts, decimal2_counts, decimal3_counts, safe_zones, errD>>
    /\ UNCHANGED simVars

Top10 ==
    /\ pcD = "top10"
    /\ top_10' = TopBuckets(edges_01, hist_01, TOP_10)
    /\ pcD' = "hist005"
    /\ UNCHANGED <<data_file, df, df_first, rates, basic_stats, edges_01, hist_01,
                   edges_005, hist_005, top_15, first_decimal, second_decimal,
                   third_decimal, decimal_counts, decimal2_counts, decimal3_counts,
                   safe_zones, errD>>
    /\ UNCHANGED simVars

Hist005 ==
    /\ pcD = "hist005"
    /\ edges_005' = Bins(rates, W_005)
    /\ hist_005' = Histogram(rates, Bins(rates, W_005))
    /\ pcD' = "top15"
    /\ UNCHANGED <<data_file, df, df_first, rates, basic_stats, edges_01, hist_01,
                   top_10, top_15, first_decimal, second_decimal, third_decimal,
                   decimal_counts, decimal2_counts, decimal3_counts, safe_zones, errD>>
    /\ UNCHANGED simVars

Top15 ==
    /\ pcD = "top15"
    /\ top_15' = TopBuckets(edges_005, hist_005, TOP_15)
    /\ pcD' = "digits"
    /\ UNCHANGED <<data_file, df, df_first, rates, basic_stats, edges_01, hist_01,
                   top_10, edges_005, hist_005, first_decimal, second_decimal,
                   third_decimal, decimal_counts, decimal2_counts, decimal3_counts,
                   safe_zones, errD>>
    /\ UNCHANGED simVars

\* ((rates * scale) % 10).astype(int) for one rate: the float64 product is
\* reduced modulo 10 (exactly) and truncated.
DecimalDigit(rate, scale) == FTrunc(FMulInt(FFromRatio(rate, 1000), scale)) % 10

DecimalDigits(rs, scale) == [k \in 1..Len(rs) |-> DecimalDigit(rs[k], scale)]

\* Counter(digits): a digit that does not occur counts 0.
CounterOf(digits) ==
    [d \in 0..9 |-> Cardinality({k \in 1..Len(digits) : digits[k] = d})]

\* The three digit tables.
Digits ==
    /\ pcD = "digits"
    /\ first_decimal' = DecimalDigits(rates, 10)
    /\ decimal_counts' = CounterOf(DecimalDigits(rates, 10))
    /\ second_decimal' = DecimalDigits(rates, 100)
    /\ decimal2_counts' = CounterOf(DecimalDigits(rates, 100))
    /\ third_decimal' = DecimalDigits(rates, 1000)
    /\ decimal3_counts' = CounterOf(DecimalDigits(rates, 1000))
    /\ pcD' = "safe"
    /\ UNCHANGED <<data_file, df, df_first, rates, basic_stats, edges_01, hist_01,
                   top_10, edges_005, hist_005, top_15, safe_zones, errD>>
    /\ UNCHANGED simVars

\* The exact-value and concentration tables before this listing only print.
SafeZones ==
    /\ pcD = "safe"
    /\ safe_zones' = SafeBuckets(edges_005, hist_005, TOP_10)
    /\ pcD' = "done"
    /\ UNCHANGED <<data_file, df, df_first, rates, basic_stats, edges_01, hist_01,
                   top_10, edges_005, hist_005, top_15, first_decimal, second_decimal,
                   third_decimal, decimal_counts, decimal2_counts, decimal3_counts,
                   errD>>
    /\ UNCHANGED simVars

(***************************************************************************)
(* The rest of the simulation scripts: the percentile report of            *)
(* monte_carlo_simulation.py, the load of the historical winners (all      *)
(* three scripts, after the trial loop), and the JSON / CSV summary of     *)
(* monte_carlo_simulation_korean.py.  The plotting code between these      *)
(* steps changes no data and is not modelled.                              *)
(***************************************************************************)
\* BASE_AMOUNT counts millions of won; the bid amount is written in won.
WON_PER_UNIT == 1000000

\* The sheet of a summary run holds at most MaxSummaryRecords rows.
MaxSummaryRecords == 2

\* Rates of the historical sheet of a summary run (units of 0.001).
SummaryRateValues == {86064, 87030, 87745}

SummaryRecords == [rank : RankValues, rate : SummaryRateValues]

\* The generators of a summary run.
SummaryMultipliers == {9973, 20011}

SummaryIncrements == {0, 1, 5}

\* percentiles = [5, 10, 25, 50, 75, 90, 95]
PERCENTILES == {5, 10, 25, 50, 75, 90, 95}

\* The percentiles of the JSON summary.
SUMMARY_PERCENTILES == {5, 25, 50, 75, 95}

NoFrame == [none |-> TRUE, rows |-> <<>>]

NoPercentiles == [q \in PERCENTILES |-> NaN]

\* Statistics of one simulated array as the summary holds them.
ArrayStats(a) ==
    [mean   |-> Mean(a),
     median |-> Median(a),
     std    |-> Std(a, 0),
     min    |-> RatMin(a),
     max    |-> RatMax(a),
     range  |-> RatSub(RatMax(a), RatMin(a))]

\* summary["기초대비_낙찰하한율"]: every value rounded to 3 decimals.
RoundedArrayStats(a) ==
    [mean   |-> Round3(Mean(a)),
     median |-> Round3(Median(a)),
     std    |-> Std(a, 0),
     min    |-> Round3(RatMin(a)),
     max    |-> Round3(RatMax(a)),
     range  |-> Round3(RatSub(RatMax(a), RatMin(a))),
     percentiles |-> [q \in SUMMARY_PERCENTILES |-> Round3(Percentile(a, q))]]

\* Series.min / Series.max: NaN for an empty series (no exception).
SeriesMin(a) == IF a = <<>> THEN NaN ELSE RatMin(a)

SeriesMax(a) == IF a = <<>> THEN NaN ELSE RatMax(a)

\* summary["과거_1위_데이터"], computed from df_first.
HistoryStats(frame) ==
    [count  |-> Len(frame),
     mean   |-> Round3(Mean(AsRats(RatesOf(frame)))),
     median |-> Round3(Median(AsRats(RatesOf(frame)))),
     std    |-> Std(AsRats(RatesOf(frame)), 1),
     min    |-> Round3(SeriesMin(AsRats(RatesOf(frame)))),
     max    |-> Round3(SeriesMax(AsRats(RatesOf(frame))))]

NoHistory ==
    [count |-> 0, mean |-> NaN, median |-> NaN, std |-> "nan", min |-> NaN, max |-> NaN]

\* sorted integer rates (0.001 units)
RECURSIVE SortedInts(_)
SortedInts(s) ==
    IF s = <<>> THEN <<>>
    ELSE LET m == MinOfSeq(s)
             j == CHOOSE k \in 1..Len(s) : s[k] = m
         IN  <<m>> \o SortedInts(RemoveAt(s, j))

\* Series.median() as a float64, for a non-empty series of sheet cells.
FloatMedian(rs) ==
    LET a == SortedInts(rs)
        n == Len(rs)
    IN  IF n % 2 = 1 THEN FFromRatio(a[(n + 1) \div 2], 1000)
        ELSE FHalf(FAdd(FFromRatio(a[n \div 2], 1000), FFromRatio(a[n \div 2 + 1], 1000)))

\* int(BASE_AMOUNT * median / 100) in won: a float64 product, a float64
\* quotient, then truncation.
BidAmount(rs) ==
    FTrunc(FDivSmall(FMulInt(FloatMedian(rs), BASE_AMOUNT * WON_PER_UNIT), 100))

NoComparison == [margin |-> NaN, rate |-> NaN, amount |-> 0]

NoSummary ==
    [keys        |-> {},
     base_amount |-> 0,
     agency_rate |-> NaN,
     n_simulations |-> 0,
     reserve     |-> [mean |-> NaN, median |-> NaN, std |-> "nan", min |-> NaN,
                      max |-> NaN, range |-> NaN],
     min_winning |-> [mean |-> NaN, median |-> NaN, std |-> "nan", min |-> NaN,
                      max |-> NaN, range |-> NaN],
     rate        |-> [mean |-> NaN, median |-> NaN, std |-> "nan", min |-> NaN,
                      max |-> NaN, range |-> NaN,
                      percentiles |-> [q \in SUMMARY_PERCENTILES |-> NaN]],
     history     |-> NoHistory,
     comparison  |-> NoComparison]

NoFile == [exists |-> FALSE, doc |-> NoSummary]

\* 4. the percentile report of monte_carlo_simulation.py ("%.3f").
PercentileReport(r) ==
    /\ pc[r] = "done"
    /\ percentiles' = [percentiles EXCEPT ![r] =
            [q \in PERCENTILES |-> Round3(Percentile(base_to_min_winning_rates[r], q))]]
    /\ pc' = [pc EXCEPT ![r] = "load"]
    /\ UNCHANGED <<n_preliminary_prices, genA, genC, rng, rngDraws,
                   preliminary_prices, i, selected_idx, selected, reserve_prices,
                   min_winning_prices, base_to_min_winning_rates, reserve_mean, err>>
    /\ UNCHANGED <<data_file_sim, df_sim, df_first_sim, summary, summary_file, csv_file>>
    /\ UNCHANGED distVars

\* The historical data: if data_file.exists(): read and filter, else
\* df_first = None.  A sheet lacking a column raises KeyError (uncaught).
LoadHistorical(r) ==
    /\ pc[r] = "load"
    /\ IF ~data_file_sim[r].exists
       THEN /\ df_first_sim' = [df_first_sim EXCEPT ![r] = NoFrame]
            /\ pc' = [pc EXCEPT ![r] = "summary"]
            /\ UNCHANGED <<df_sim, err>>
       ELSE IF "rank" \notin data_file_sim[r].columns
       THEN /\ df_sim' = [df_sim EXCEPT ![r] = data_file_sim[r].rows]
            /\ pc' = [pc EXCEPT ![r] = "error"]
            /\ err' = [err EXCEPT ![r] = "KeyError"]
            /\ UNCHANGED df_first_sim
       ELSE /\ df_sim' = [df_sim EXCEPT ![r] = data_file_sim[r].rows]
            /\ df_first_sim' = [df_first_sim EXCEPT ![r] =
                    [none |-> FALSE, rows |-> FilterFirst(data_file_sim[r].rows)]]
            /\ IF "rate" \notin data_file_sim[r].columns
               THEN /\ pc' = [pc EXCEPT ![r] = "error"]
                    /\ err' = [err EXCEPT ![r] = "KeyError"]
               ELSE /\ pc' = [pc EXCEPT ![r] = "summary"]
                    /\ UNCHANGED err
    /\ UNCHANGED <<n_preliminary_prices, genA, genC, rng, rngDraws,
                   preliminary_prices, i, selected_idx, selected, reserve_prices,
                   min_winning_prices, base_to_min_winning_rates, reserve_mean>>
    /\ UNCHANGED <<data_file_sim, percentiles, summary, summary_file, csv_file>>
    /\ UNCHANGED distVars

\* The three simulation sections of the summary.
SimulationSections(r) ==
    [NoSummary EXCEPT
        !.keys        = {"reserve", "min_winning", "rate"},
        !.base_amount = BASE_AMOUNT * WON_PER_UNIT,
        !.agency_rate = AGENCY_RATE,
        !.n_simulations = N_SIMULATIONS,
        !.reserve     = ArrayStats(reserve_prices[r]),
        !.min_winning = ArrayStats(min_winning_prices[r]),
        !.rate        = RoundedArrayStats(base_to_min_winning_rates[r])]

\* 5. the summary dictionary.  With a loaded frame the history and the
\* comparison sections are added; int() of a NaN median raises ValueError.
BuildSummary(r) ==
    /\ pc[r] = "summary"
    /\ IF df_first_sim[r].none
       THEN /\ summary' = [summary EXCEPT ![r] = SimulationSections(r)]
            /\ pc' = [pc EXCEPT ![r] = "dump"]
            /\ UNCHANGED err
       ELSE LET frame == df_first_sim[r].rows
                hr    == AsRats(RatesOf(frame))
                withHistory ==
                    [SimulationSections(r) EXCEPT
                        !.keys    = {"reserve", "min_winning", "rate", "history"},
                        !.history = HistoryStats(frame)]
            IN  IF frame = <<>>
                THEN /\ summary' = [summary EXCEPT ![r] = withHistory]
                     /\ pc' = [pc EXCEPT ![r] = "error"]
                     /\ err' = [err EXCEPT ![r] = "ValueError"]
                ELSE /\ summary' = [summary EXCEPT ![r] =
                            [withHistory EXCEPT
                                !.keys = {"reserve", "min_winning", "rate",
                                          "history", "comparison"},
                                !.comparison =
                                    [margin |-> Round3(RatSub(Mean(hr),
                                                   Mean(base_to_min_winning_rates[r]))),
                                     rate   |-> Round3(Median(hr)),
                                     amount |-> BidAmount(RatesOf(frame))]]]
                     /\ pc' = [pc EXCEPT ![r] = "dump"]
                     /\ UNCHANGED err
    /\ UNCHANGED <<n_preliminary_prices, genA, genC, rng, rngDraws,
                   preliminary_prices, i, selected_idx, selected, reserve_prices,
                   min_winning_prices, base_to_min_winning_rates, reserve_mean>>
    /\ UNCHANGED <<data_file_sim, df_sim, df_first_sim, percentiles, summary_file,
                   csv_file>>
    /\ UNCHANGED distVars

\* Mutant of DumpJson: the summary file is written where the historical
\* data should be loaded, before the summary is assembled.
DumpJsonEarly(r) ==
    /\ pc[r] = "load"
    /\ summary_file' = [summary_file EXCEPT ![r] = [exists |-> TRUE, doc |-> summary[r]]]
    /\ pc' = [pc EXCEPT ![r] = "csv"]
    /\ UNCHANGED <<n_preliminary_prices, genA, genC, rng, rngDraws,
                   preliminary_prices, i, selected_idx, selected, reserve_prices,
                   min_winning_prices, base_to_min_winning_rates, reserve_mean, err>>
    /\ UNCHANGED <<data_file_sim, df_sim, df_first_sim, percentiles, summary, csv_file>>
    /\ UNCHANGED distVars

\* json.dump(summary, f, ...): allow_nan is left at its default, so a NaN
\* is written as the token NaN; the document holds the summary's values.
DumpJson(r) ==
    /\ pc[r] = "dump"
    /\ summary_file' = [summary_file EXCEPT ![r] = [exists |-> TRUE, doc |-> summary[r]]]
    /\ pc' = [pc EXCEPT ![r] = "csv"]
    /\ UNCHANGED <<n_preliminary_prices, genA, genC, rng, rngDraws,
                   preliminary_prices, i, selected_idx, selected, reserve_prices,
                   min_winning_prices, base_to_min_winning_rates, reserve_mean, err>>
    /\ UNCHANGED <<data_file_sim, df_sim, df_first_sim, percentiles, summary, csv_file>>
    /\ UNCHANGED distVars

\* 6. the CSV table: the mean, median, minimum and maximum of the rate
\* array ("%.3f").
SaveCsv(r) ==
    /\ pc[r] = "csv"
    /\ csv_file' = [csv_file EXCEPT ![r] =
            <<Round3(Mean(base_to_min_winning_rates[r])),
              Round3(Median(base_to_min_winning_rates[r])),
              Round3(RatMin(base_to_min_winning_rates[r])),
              Round3(RatMax(base_to_min_winning_rates[r]))>>]
    /\ pc' = [pc EXCEPT ![r] = "end"]
    /\ UNCHANGED <<n_preliminary_prices, genA, genC, rng, rngDraws,
                   preliminary_prices, i, selected_idx, selected, reserve_prices,
                   min_winning_prices, base_to_min_winning_rates, reserve_mean, err>>
    /\ UNCHANGED <<data_file_sim, df_sim, df_first_sim, percentiles, summary,
                   summary_file>>
    /\ UNCHANGED distVars

(***************************************************************************)
(* Initial states and specifications.                                      *)
(***************************************************************************)
\* Nothing of the later sections of the script has happened.
PipeStart ==
    /\ percentiles = [r \in Runs |-> NoPercentiles]
    /\ df_sim = [r \in Runs |-> <<>>]
    /\ df_first_sim = [r \in Runs |-> NoFrame]
    /\ summary = [r \in Runs |-> NoSummary]
    /\ summary_file = [r \in Runs |-> NoFile]
    /\ csv_file = [r \in Runs |-> <<>>]

SimInit ==
    /\ n_preliminary_prices \in PrelimCounts
    /\ genA \in GenMultipliers
    /\ genC \in 0..MaxIncrement
    /\ pc = [r \in Runs |-> "prices"]
    /\ rng \in [Runs -> EntropyStates]
    /\ rngDraws = [r \in Runs |-> 0]
    /\ preliminary_prices = [r \in Runs |-> <<>>]
    /\ i = [r \in Runs |-> 0]
    /\ selected_idx = [r \in Runs |-> <<>>]
    /\ selected = [r \in Runs |-> <<>>]
    /\ reserve_prices = [r \in Runs |-> <<>>]
    /\ min_winning_prices = [r \in Runs |-> <<>>]
    /\ base_to_min_winning_rates = [r \in Runs |-> <<>>]
    /\ reserve_mean = [r \in Runs |-> NaN]
    /\ err = [r \in Runs |-> ""]
    /\ data_file_sim = [r \in Runs |-> AbsentFile]
    /\ PipeStart

\* The distribution script is not running.
DistIdle ==
    /\ data_file = [exists |-> FALSE, columns |-> {}, rows |-> <<>>]
    /\ df = <<>>
    /\ df_first = <<>>
    /\ rates = <<>>
    /\ basic_stats = [mean |-> NaN, median |-> NaN, std |-> "nan",
                      min |-> NaN, max |-> NaN]
    /\ first_decimal = <<>>
    /\ second_decimal = <<>>
    /\ third_decimal = <<>>
    /\ decimal_counts = [d \in 0..9 |-> 0]
    /\ decimal2_counts = [d \in 0..9 |-> 0]
    /\ decimal3_counts = [d \in 0..9 |-> 0]
    /\ edges_01 = <<>>
    /\ hist_01 = <<>>
    /\ top_10 = <<>>
    /\ edges_005 = <<>>
    /\ hist_005 = <<>>
    /\ top_15 = <<>>
    /\ safe_zones = <<>>
    /\ pcD = "idle"
    /\ errD = ""

Init == SimInit /\ DistIdle

Next ==
    \E r \in Runs :
        \/ MakePrices(r)
        \/ SeedAndInit(r)
        \/ Trial(r)
        \/ LoopExit(r)
        \/ Stats(r)

Spec == Init /\ [][Next]_vars

\* The simulation script is not running.
SimIdle ==
    /\ n_preliminary_prices = N_PRELIMINARY_PRICES
    /\ genA = 1
    /\ genC = 0
    /\ pc = [r \in Runs |-> "idle"]
    /\ rng = [r \in Runs |-> 0]
    /\ rngDraws = [r \in Runs |-> 0]
    /\ preliminary_prices = [r \in Runs |-> <<>>]
    /\ i = [r \in Runs |-> 0]
    /\ selected_idx = [r \in Runs |-> <<>>]
    /\ selected = [r \in Runs |-> <<>>]
    /\ reserve_prices = [r \in Runs |-> <<>>]
    /\ min_winning_prices = [r \in Runs |-> <<>>]
    /\ base_to_min_winning_rates = [r \in Runs |-> <<>>]
    /\ reserve_mean = [r \in Runs |-> NaN]
    /\ err = [r \in Runs |-> ""]
    /\ data_file_sim = [r \in Runs |-> AbsentFile]
    /\ PipeStart

\* The script starts; nothing is loaded yet.
DistStart ==
    /\ df = <<>>
    /\ df_first = <<>>
    /\ rates = <<>>
    /\ basic_stats = NoStats
    /\ first_decimal = <<>>
    /\ second_decimal = <<>>
    /\ third_decimal = <<>>
    /\ decimal_counts = NoCounts
    /\ decimal2_counts = NoCounts
    /\ decimal3_counts = NoCounts
    /\ edges_01 = <<>>
    /\ hist_01 = <<>>
    /\ top_10 = <<>>
    /\ edges_005 = <<>>
    /\ hist_005 = <<>>
    /\ top_15 = <<>>
    /\ safe_zones = <<>>
    /\ pcD = "load"
    /\ errD = ""

DistInit ==
    /\ data_file \in FileStates(Records, MaxRecords)
    /\ DistStart

InitDist == DistInit /\ SimIdle

NextDist ==
    \/ LoadAndFilter
    \/ BasicStats
    \/ Hist01
    \/ Top10
    \/ Hist005
    \/ Top15
    \/ Digits
    \/ SafeZones

SpecDist == InitDist /\ [][NextDist]_vars

MaxDigitRecords == 3

\* Rates whose second decimal is lost by the float64 product (80.07 and
\* 80.21: 80.07 * 100 is 8006.999999999999) next to one that keeps all
\* three (80.125).  On these values float64 evaluation of the bucket edges
\* gives the same buckets as exact arithmetic.
DigitRateValues == {80070, 80125, 80210}

DigitRecords == [rank : {1, 2}, rate : DigitRateValues]

\* The distribution analysis run on a sheet of such rates.
InitDigits ==
    /\ data_file \in FileStates(DigitRecords, MaxDigitRecords)
    /\ DistStart
    /\ SimIdle

SpecDigits == InitDigits /\ [][NextDist]_vars

\* One run of the script from its first line to the written summary; the
\* other run does not take place.
InitSummary ==
    /\ n_preliminary_prices = N_PRELIMINARY_PRICES
    /\ genA \in SummaryMultipliers
    /\ genC \in SummaryIncrements
    /\ pc = [r \in Runs |-> IF r = 1 THEN "prices" ELSE "idle"]
    /\ rng \in {[r \in Runs |-> e] : e \in EntropyStates}
    /\ rngDraws = [r \in Runs |-> 0]
    /\ preliminary_prices = [r \in Runs |-> <<>>]
    /\ i = [r \in Runs |-> 0]
    /\ selected_idx = [r \in Runs |-> <<>>]
    /\ selected = [r \in Runs |-> <<>>]
    /\ reserve_prices = [r \in Runs |-> <<>>]
    /\ min_winning_prices = [r \in Runs |-> <<>>]
    /\ base_to_min_winning_rates = [r \in Runs |-> <<>>]
    /\ reserve_mean = [r \in Runs |-> NaN]
    /\ err = [r \in Runs |-> ""]
    /\ \E f \in FileStates(SummaryRecords, MaxSummaryRecords) :
          data_file_sim = [r \in Runs |-> IF r = 1 THEN f ELSE AbsentFile]
    /\ PipeStart
    /\ DistIdle

NextSummary ==
    \E r \in Runs :
        \/ MakePrices(r)
        \/ SeedAndInit(r)
        \/ Trial(r)
        \/ LoopExit(r)
        \/ Stats(r)
        \/ PercentileReport(r)
        \/ LoadHistorical(r)
        \/ BuildSummary(r)
        \/ DumpJson(r)
        \/ SaveCsv(r)

SpecSummary == InitSummary /\ [][NextSummary]_vars

\* The sheets of two runs that are compared hold at most MaxPairRecords rows.
MaxPairRecords == 1

\* A winner and a runner-up at 87.03.
PairRecords == [rank : {1, 2}, rate : {87030}]

PairIncrements == {1, 5}

\* Two runs of the script, each from its first line to the written
\* summary, with the same generator and each with a sheet of its own.
InitPair ==
    /\ n_preliminary_prices = N_PRELIMINARY_PRICES
    /\ genA = 9973
    /\ genC \in PairIncrements
    /\ pc = [r \in Runs |-> "prices"]
    /\ rng \in {[r \in Runs |-> e] : e \in EntropyStates}
    /\ rngDraws = [r \in Runs |-> 0]
    /\ preliminary_prices = [r \in Runs |-> <<>>]
    /\ i = [r \in Runs |-> 0]
    /\ selected_idx = [r \in Runs |-> <<>>]
    /\ selected = [r \in Runs |-> <<>>]
    /\ reserve_prices = [r \in Runs |-> <<>>]
    /\ min_winning_prices = [r \in Runs |-> <<>>]
    /\ base_to_min_winning_rates = [r \in Runs |-> <<>>]
    /\ reserve_mean = [r \in Runs |-> NaN]
    /\ err = [r \in Runs |-> ""]
    /\ data_file_sim \in [Runs -> FileStates(PairRecords, MaxPairRecords)]
    /\ PipeStart
    /\ DistIdle

SpecPair == InitPair /\ [][NextSummary]_vars

(***************************************************************************)
(* Claims about the Reserve-Price Simulator (checked under Spec).          *)
(***************************************************************************)
MinOf(a, b) == IF a < b THEN a ELSE b

Seeded(r) == pc[r] \in {"loop", "stats", "done", "error"}

PairwiseDistinct(s) == \A j, k \in 1..Len(s) : j # k => s[j] # s[k]

\* C1: two runs of the simulator with the same inputs and seed 42 produce
\* the same reservePrice, minWinningPrice and baseToFloorRate arrays,
\* element by element, and between seeding and the end of the loop the
\* generator is used exactly once per completed trial.
C1_Determinism ==
    /\ \A k \in 1..MinOf(Len(reserve_prices[1]), Len(reserve_prices[2])) :
          /\ reserve_prices[1][k] = reserve_prices[2][k]
          /\ min_winning_prices[1][k] = min_winning_prices[2][k]
          /\ base_to_min_winning_rates[1][k] = base_to_min_winning_rates[2][k]
    /\ \A r \in Runs : Seeded(r) => rngDraws[r] = Len(reserve_prices[r])
    /\ (Seeded(1) /\ Seeded(2) /\ rngDraws[1] = rngDraws[2]) => rng[1] = rng[2]

C1_Witness ==
    /\ n_preliminary_prices = N_PRELIMINARY_PRICES
    /\ \A r \in Runs : pc[r] = "done" /\ Len(base_to_min_winning_rates[r]) = N_SIMULATIONS
    /\ reserve_prices[1][1] # reserve_prices[1][2]

\* C2: each completed trial drew exactly N_SELECTED = 4 pairwise distinct
\* positions of the preliminary-price list (15 long in the shipped
\* configuration), and its reservePrice is the arithmetic mean of the
\* prices at exactly those positions.
C2_FourDistinctPrices ==
    \A r \in Runs :
        Len(reserve_prices[r]) >= 1 =>
            /\ Len(selected_idx[r]) = 4
            /\ Len(selected[r]) = 4
            /\ \A j \in 1..Len(selected_idx[r]) :
                  /\ selected_idx[r][j] \in 1..Len(preliminary_prices[r])
                  /\ selected[r][j] = preliminary_prices[r][selected_idx[r][j]]
            /\ PairwiseDistinct(selected_idx[r])
            /\ PairwiseDistinct(selected[r])
            /\ n_preliminary_prices = N_PRELIMINARY_PRICES
                   => Len(preliminary_prices[r]) = 15
            /\ reserve_prices[r][Len(reserve_prices[r])] =
                   RatDiv(RatAdd(RatAdd(selected[r][1], selected[r][2]),
                                 RatAdd(selected[r][3], selected[r][4])), FromInt(4))

C2_Witness ==
    \E r \in Runs :
        /\ n_preliminary_prices = N_PRELIMINARY_PRICES
        /\ Len(reserve_prices[r]) = N_SIMULATIONS
        /\ Len(selected_idx[r]) = N_SELECTED
        /\ selected_idx[r][1] > selected_idx[r][2]

C4_DerivedArrays ==
    \A r \in Runs :
        /\ Len(min_winning_prices[r]) = Len(reserve_prices[r])
        /\ Len(base_to_min_winning_rates[r]) = Len(reserve_prices[r])
        /\ \A k \in 1..Len(reserve_prices[r]) :
              /\ min_winning_prices[r][k] =
                     RatDiv(RatMul(reserve_prices[r][k], AGENCY_RATE), FromInt(100))
              /\ base_to_min_winning_rates[r][k] =
                     RatMul(RatDiv(min_winning_prices[r][k], FromInt(BASE_AMOUNT)),
                            FromInt(100))
              /\ base_to_min_winning_rates[r][k] =
                     RatDiv(RatMul(reserve_prices[r][k], AGENCY_RATE),
                            FromInt(BASE_AMOUNT))

C4_Witness ==
    \E r \in Runs :
        /\ Len(min_winning_prices[r]) >= 2
        /\ min_winning_prices[r][1] # min_winning_prices[r][2]
        /\ RatLess(reserve_prices[r][2], FromInt(BASE_AMOUNT))

\* C5: the three output arrays always have the same length, which is the
\* number of completed trials; after the loop that length is exactly N;
\* no entry is NaN; the loop performs exactly N trials and stops.
C5_ArrayLengths ==
    \A r \in Runs :
        /\ Len(reserve_prices[r]) = i[r]
        /\ Len(min_winning_prices[r]) = i[r]
        /\ Len(base_to_min_winning_rates[r]) = i[r]
        /\ i[r] <= N_SIMULATIONS
        /\ pc[r] \in {"stats", "done"} => i[r] = N_SIMULATIONS
        /\ \A k \in 1..Len(reserve_prices[r]) : ~IsNaN(reserve_prices[r][k])
        /\ \A k \in 1..Len(min_winning_prices[r]) : ~IsNaN(min_winning_prices[r][k])
        /\ \A k \in 1..Len(base_to_min_winning_rates[r]) :
              ~IsNaN(base_to_min_winning_rates[r][k])

C5_Witness ==
    \E r \in Runs :
        /\ pc[r] = "done"
        /\ err[r] = ""
        /\ Len(reserve_prices[r]) = N_SIMULATIONS
        /\ N_SIMULATIONS >= 2

\* C6: with fewer preliminary prices than the N_SELECTED = 4 to draw, the
\* draw raises on the first trial: no trial is ever completed and the run
\* ends in an error; a completed trial always averaged 4 distinct prices.
C6_TooFewPricesFails ==
    \A r \in Runs :
        /\ n_preliminary_prices < N_SELECTED =>
              /\ i[r] = 0
              /\ reserve_prices[r] = <<>>
              /\ pc[r] \in {"prices", "seed", "loop", "error"}
        /\ pc[r] = "error" =>
              /\ err[r] = "ValueError"
              /\ n_preliminary_prices < N_SELECTED
              /\ i[r] = 0
        /\ (pc[r] = "loop" /\ LoopContinues(i[r]) /\ n_preliminary_prices < N_SELECTED)
              => ~DrawSample(preliminary_prices[r], rng[r]).ok
        /\ i[r] >= 1 =>
              /\ Len(selected[r]) = N_SELECTED
              /\ Cardinality({selected_idx[r][k] : k \in 1..Len(selected_idx[r])})
                     = N_SELECTED

C6_Witness ==
    \E r \in Runs :
        /\ n_preliminary_prices = 3
        /\ pc[r] = "error"
        /\ err[r] = "ValueError"
        /\ Len(preliminary_prices[r]) = 3

\* C7: in the end-to-end scenario (base 39,000,000, variance 3%, 15
\* preliminary prices, 4 drawn per trial) the mean of the reservePrice
\* array lies within [37,830,000, 40,170,000], whatever was drawn.
C7_ReserveMeanInRange ==
    \A r \in Runs :
        (pc[r] = "done" /\ n_preliminary_prices = N_PRELIMINARY_PRICES) =>
            /\ RatLeq(Rat(3783, 100), reserve_mean[r])
            /\ RatLeq(reserve_mean[r], Rat(4017, 100))

C7_Witness ==
    \E r \in Runs :
        /\ pc[r] = "done"
        /\ n_preliminary_prices = N_PRELIMINARY_PRICES
        /\ reserve_mean[r] = Mean(reserve_prices[r])
        /\ RatLess(FromInt(BASE_AMOUNT), reserve_mean[r])

(***************************************************************************)
(* Claims about the Competition Density Estimator (checked under SpecDist).*)
(***************************************************************************)
RECURSIVE IntSum(_)
IntSum(h) == IF h = <<>> THEN 0 ELSE h[1] + IntSum(Tail(h))

\* Both histograms have been computed.
Bucketed == pcD \in {"top15", "digits", "safe", "done"}

\* The values lying in the range the edges span.
InRange(values, edges) ==
    Cardinality({k \in 1..Len(values) :
        /\ Len(edges) >= 1
        /\ edges[1] <= values[k]
        /\ values[k] <= edges[Len(edges)]})

HalfOpenCount(values, edges, b) ==
    Cardinality({k \in 1..Len(values) :
        edges[b] <= values[k] /\ values[k] < edges[b + 1]})

\* C8: for both bucket widths the bucket counts sum to the number of
\* in-range values, and every value is in range (counted in exactly one
\* bucket), also when all values are equal or the maximum lies on an edge.
C8_BucketCoverage ==
    Bucketed =>
        /\ IntSum(hist_01) = InRange(rates, edges_01)
        /\ InRange(rates, edges_01) = Len(rates)
        /\ IntSum(hist_005) = InRange(rates, edges_005)
        /\ InRange(rates, edges_005) = Len(rates)

\* C9: every bucket, the last one included, is the half-open interval
\* [start, start+w): its count is the number of values v with
\* start <= v < start+w.
C9_HalfOpenBuckets ==
    Bucketed =>
        /\ \A b \in 1..Len(hist_01) :
              hist_01[b] = HalfOpenCount(rates, edges_01, b)
        /\ \A b \in 1..Len(hist_005) :
              hist_005[b] = HalfOpenCount(rates, edges_005, b)

\* C10: every bucket listed as a safe zone has occupancy <= 2 and starts
\* at or above 87.0; no bucket with occupancy 3 or more is listed.
C10_SafeZonesSparse ==
    pcD = "done" =>
        \A k \in 1..Len(safe_zones) :
            /\ safe_zones[k][3] <= 2
            /\ safe_zones[k][1] >= 87000

(***************************************************************************)
(* Claims about the historical winners and the summary (SpecSummary,       *)
(* SpecDist).                                                              *)
(***************************************************************************)
\* The rates of the rank-1 rows of a sheet, read off the sheet itself.
WinnerRates(rows) == {rows[k].rate : k \in {j \in 1..Len(rows) : rows[j].rank = 1}}

WinnerCount(rows) == Cardinality({j \in 1..Len(rows) : rows[j].rank = 1})

\* x lies in the closed range spanned by the winners' rates.
InWinnerRange(x, rows) ==
    /\ ~IsNaN(x)
    /\ \E w \in WinnerRates(rows) : RatLeq(Rat(w, 1000), x)
    /\ \E w \in WinnerRates(rows) : RatLeq(x, Rat(w, 1000))

Filtered == pcD \notin {"load", "error"} \/ (pcD = "error" /\ errD = "ValueError")

Ordered(f, qs) == \A p, q \in qs : p <= q => RatLeq(f[p], f[q])

\* C13: every percentile set reported for the simulated baseToFloorRate
\* ensemble is ordered, p5 <= p25 <= p50 <= p75 <= p95, with min <= p5 and
\* p95 <= max: the exact percentiles, the printed table (3 decimals), and
\* the percentiles of the JSON summary after rounding to 3 decimals.
C13_PercentileOrdering ==
    \A r \in Runs :
        /\ ~IsNaN(percentiles[r][50]) =>
              LET a   == base_to_min_winning_rates[r]
                  raw == [q \in PERCENTILES |-> Percentile(a, q)]
              IN  /\ Ordered(raw, PERCENTILES)
                  /\ RatLeq(RatMin(a), raw[5])
                  /\ RatLeq(raw[95], RatMax(a))
                  /\ Ordered(percentiles[r], PERCENTILES)
                  /\ RatLeq(Round3(RatMin(a)), percentiles[r][5])
                  /\ RatLeq(percentiles[r][95], Round3(RatMax(a)))
        /\ "rate" \in summary[r].keys =>
              /\ Ordered(summary[r].rate.percentiles, SUMMARY_PERCENTILES)
              /\ RatLeq(summary[r].rate.min, summary[r].rate.percentiles[5])
              /\ RatLeq(summary[r].rate.percentiles[95], summary[r].rate.max)
        /\ summary_file[r].exists =>
              /\ Ordered(summary_file[r].doc.rate.percentiles, SUMMARY_PERCENTILES)
              /\ RatLeq(summary_file[r].doc.rate.min,
                        summary_file[r].doc.rate.percentiles[5])
              /\ RatLeq(summary_file[r].doc.rate.percentiles[95],
                        summary_file[r].doc.rate.max)

C13_Witness ==
    \E r \in Runs :
        /\ summary_file[r].exists
        /\ RatLess(base_to_min_winning_rates[r][2], base_to_min_winning_rates[r][1])
        /\ RatLess(summary_file[r].doc.rate.percentiles[5],
                   summary_file[r].doc.rate.percentiles[25])
        /\ RatLess(summary_file[r].doc.rate.percentiles[75],
                   summary_file[r].doc.rate.percentiles[95])
        /\ summary_file[r].doc.rate.percentiles[50] # Percentile(base_to_min_winning_rates[r], 50)

\* The sheet cannot be located, or lacks a column the script reads.
MissingInput(file) == ~file.exists \/ ~(AllColumns \subseteq file.columns)

\* C14: when the historical data file cannot be located or the rank / rate
\* column is absent, no script that loads the file terminates with an
\* uncaught exception: the distribution analysis and the simulation script
\* both go on without the historical statistics.
C14_MissingInputHandled ==
    /\ MissingInput(data_file) => pcD # "error"
    /\ \A r \in Runs : MissingInput(data_file_sim[r]) => pc[r] # "error"

\* The sheet is there with both columns, and holds no rank-1 record.
NoWinners(file) == ~MissingInput(file) /\ WinnerCount(file.rows) = 0

\* C15: when the historical dataset has no rows, or no rank-1 record, the
\* run is not aborted by an exception: neither the min/max/mean over the
\* empty winner set nor the conversion of the recommended bid amount to an
\* integer ends the script.
C15_EmptyDatasetHandled ==
    /\ \A r \in Runs : NoWinners(data_file_sim[r]) => pc[r] # "error"
    /\ NoWinners(data_file) => pcD # "error"

\* Every number of a statistics block is finite.
FiniteBlock(b) ==
    /\ ~IsNaN(b.mean) /\ ~IsNaN(b.median) /\ ~IsNaN(b.min) /\ ~IsNaN(b.max)
    /\ b.std # "nan"

\* Every number of the sections a summary document carries is finite.
FiniteDocument(doc) ==
    /\ "reserve" \in doc.keys => FiniteBlock(doc.reserve) /\ ~IsNaN(doc.reserve.range)
    /\ "min_winning" \in doc.keys =>
            FiniteBlock(doc.min_winning) /\ ~IsNaN(doc.min_winning.range)
    /\ "rate" \in doc.keys =>
            /\ FiniteBlock(doc.rate) /\ ~IsNaN(doc.rate.range)
            /\ \A q \in SUMMARY_PERCENTILES : ~IsNaN(doc.rate.percentiles[q])
    /\ "history" \in doc.keys => FiniteBlock(doc.history)
    /\ "comparison" \in doc.keys =>
            ~IsNaN(doc.comparison.margin) /\ ~IsNaN(doc.comparison.rate)

\* C16: every numeric field of the written JSON summary is a finite number;
\* a statistic that is undefined for the data (the standard deviation of a
\* single winner) is not written as NaN.
C16_NoNaNInOutput ==
    \A r \in Runs : summary_file[r].exists => FiniteDocument(summary_file[r].doc)

\* Twice the winners' median, in 0.001 percent units (an integer).
TwiceMedian(rs) ==
    LET a == SortedInts(rs)
        n == Len(rs)
    IN  IF n % 2 = 1 THEN 2 * a[(n + 1) \div 2]
        ELSE a[n \div 2] + a[n \div 2 + 1]

\* Twice baseAmount * rate / 100 in won, for the winners' median rate:
\* 2 * 39,000,000 * (m / 2000) / 100 = 390 * m, an exact integer.
TwiceExactAmount(rs) == BASE_AMOUNT * (WON_PER_UNIT \div 100000) * TwiceMedian(rs)

\* C17: the recommended bid amount a written to the summary is
\* baseAmount * rate / 100 truncated to an integer:
\* a <= baseAmount * rate / 100 < a + 1, rate being the winners' median.
C17_BidAmountTruncated ==
    \A r \in Runs :
        (summary_file[r].exists /\ "comparison" \in summary_file[r].doc.keys) =>
            LET a  == summary_file[r].doc.comparison.amount
                rs == RatesOf(df_first_sim[r].rows)
            IN  /\ 2 * a <= TwiceExactAmount(rs)
                /\ TwiceExactAmount(rs) < 2 * (a + 1)

\* The k-th decimal digit of a rate given in 0.001 units:
\* floor(value * 10^k) mod 10.
ExactDigit(rate, k) == (rate \div (IF k = 1 THEN 100 ELSE IF k = 2 THEN 10 ELSE 1)) % 10

DigitsDone == pcD \in {"safe", "done"}

\* C18: for each decimal position k in {1, 2, 3} the digit extracted from
\* every analysed rate is floor(value * 10^k) mod 10 and lies in 0..9, and
\* the digit counts of each position sum to the number of analysed rates.
C18_DigitExtraction ==
    DigitsDone =>
        /\ Len(first_decimal) = Len(rates)
        /\ Len(second_decimal) = Len(rates)
        /\ Len(third_decimal) = Len(rates)
        /\ \A k \in 1..Len(rates) :
              /\ first_decimal[k] = ExactDigit(rates[k], 1)
              /\ second_decimal[k] = ExactDigit(rates[k], 2)
              /\ third_decimal[k] = ExactDigit(rates[k], 3)
              /\ {first_decimal[k], second_decimal[k], third_decimal[k]} \subseteq 0..9
        /\ IntSum([d \in 1..10 |-> decimal_counts[d - 1]]) = Len(rates)
        /\ IntSum([d \in 1..10 |-> decimal2_counts[d - 1]]) = Len(rates)
        /\ IntSum([d \in 1..10 |-> decimal3_counts[d - 1]]) = Len(rates)

\* A listing of lines <<start, end, count>> runs from the most crowded
\* bucket down, buckets of equal count ascending by start.
TopListingOrdered(listing) ==
    \A k, l \in 1..Len(listing) :
        k < l => \/ listing[k][3] > listing[l][3]
                 \/ (listing[k][3] = listing[l][3] /\ listing[k][1] < listing[l][1])

\* A listing runs from the least crowded bucket up, buckets of equal count
\* ascending by start.
SafeListingOrdered(listing) ==
    \A k, l \in 1..Len(listing) :
        k < l => \/ listing[k][3] < listing[l][3]
                 \/ (listing[k][3] = listing[l][3] /\ listing[k][1] < listing[l][1])

\* C19: the top-10 and top-15 listings are non-increasing in occupancy and
\* the safe-zone listing non-decreasing, and in each of them buckets of
\* equal occupancy are listed ascending by bucket start.
C19_TieBreakAscending ==
    /\ TopListingOrdered(top_10)
    /\ TopListingOrdered(top_15)
    /\ SafeListingOrdered(safe_zones)

\* The phase a run is in, numbered in the order the scripts go through
\* them: 1 simulate, 2 aggregate, 3 load, 4 optimize and assemble,
\* 5 serialize, 6 finished; an aborted run stays aborted.
PhaseInCode(p) ==
    CASE p = "idle" -> 0
      [] p \in {"prices", "seed", "loop"} -> 1
      [] p \in {"stats", "done"} -> 2
      [] p = "load" -> 3
      [] p = "summary" -> 4
      [] p \in {"dump", "csv"} -> 5
      [] p = "end" -> 6
      [] p = "error" -> 7

\* The same phases numbered load, simulate, aggregate, optimize and
\* assemble, serialize.
PhaseAsStated(p) ==
    CASE p = "idle" -> 0
      [] p = "load" -> 1
      [] p \in {"prices", "seed", "loop"} -> 2
      [] p \in {"stats", "done"} -> 3
      [] p = "summary" -> 4
      [] p \in {"dump", "csv"} -> 5
      [] p = "end" -> 6
      [] p = "error" -> 7

SimulationComplete(r) ==
    /\ i[r] = N_SIMULATIONS
    /\ Len(base_to_min_winning_rates[r]) = N_SIMULATIONS

\* Output is on disk only once the summary has been assembled from a
\* complete simulation.
OutputsAfterStatistics(r) ==
    /\ summary_file[r].exists =>
            /\ pc[r] \in {"csv", "end"}
            /\ SimulationComplete(r)
            /\ {"reserve", "min_winning", "rate"} \subseteq summary_file[r].doc.keys
            /\ summary_file[r].doc = summary[r]
    /\ csv_file[r] # <<>> => pc[r] = "end" /\ summary_file[r].exists

Terminated(r) == pc[r] \in {"end", "error"}

SIMULATION_SECTIONS == {"reserve", "min_winning", "rate"}

\* The two documents carry the same simulation sections.
SameSimulationSections(a, b) ==
    /\ SIMULATION_SECTIONS \subseteq a.keys
    /\ SIMULATION_SECTIONS \subseteq b.keys
    /\ a.base_amount = b.base_amount
    /\ a.agency_rate = b.agency_rate
    /\ a.n_simulations = b.n_simulations
    /\ a.reserve = b.reserve
    /\ a.min_winning = b.min_winning
    /\ a.rate = b.rate

SameArrays(q, r) ==
    /\ reserve_prices[q] = reserve_prices[r]
    /\ min_winning_prices[q] = min_winning_prices[r]
    /\ base_to_min_winning_rates[q] = base_to_min_winning_rates[r]

\* C21: two runs that differ only in the historical file (present or not,
\* and its contents) produce the same three arrays and summaries with the
\* same simulation sections; a run without the file writes a summary that
\* holds the simulation sections and neither the historical-winner nor the
\* comparison section.
C21_IndependentOfHistory ==
    /\ \A q, r \in Runs :
          (Terminated(q) /\ Terminated(r)) =>
              /\ SameArrays(q, r)
              /\ summary_file[q].exists
              /\ summary_file[r].exists
              /\ SameSimulationSections(summary_file[q].doc, summary_file[r].doc)
    /\ \A r \in Runs :
          (Terminated(r) /\ ~data_file_sim[r].exists) =>
              /\ summary_file[r].exists
              /\ summary_file[r].doc.keys = SIMULATION_SECTIONS

\* x lies strictly between c * (1 - v) and c * (1 + v), v = VARIANCE_RANGE.
StrictlyWithinVariance(x, c) ==
    /\ RatLess(RatMul(c, RatSub(FromInt(1), VARIANCE_RANGE)), x)
    /\ RatLess(x, RatMul(c, RatAdd(FromInt(1), VARIANCE_RANGE)))

=============================================================================
